---- MODULE Spec2Model ----
(***************************************************************************)
(* State-machine model of src/src/server.js: process bootstrap, the User    *)
(* collection with its unique indexes, the /register, /login, /getUser,    *)
(* /health and /api/contact/send routes and the authenticateJWT guard.     *)
(* The file holds two versions of the server; the model follows the later  *)
(* one (lines 193-389), which is the one that guards its configuration.    *)
(*                                                                         *)
(* /register suspends between its existence check and its save, so it is   *)
(* modelled as two steps per request; the other handlers read the          *)
(* collection at most once and write nothing, so each is one step.         *)
(***************************************************************************)
EXTENDS Naturals, Integers, Sequences, FiniteSets

\* ---------------------------------------------------------------- bounds
MaxRegs   == 2   \* Register requests per behaviour (each has its own slot)
MaxTime   == 2   \* last value of the clock
MaxTokens == 1   \* tokens the clients keep for later presentation

\* ------------------------------------------------------- program constants
Hour == 1        \* expiresIn: "1h"; the clock counts hours

\* ------------------------------------------------------------ input values
Usernames == {"", "alice", "bob"}
Emails    == {"", "a@x.com", "b@x.com"}
Passwords == {"p4ss", "wrong"}
Secrets   == {"", "k1"}          \* process.env.SECRET_KEY || ""
Fields    == {"", "v"}           \* a contact-form field: missing/empty or set

\* ------------------------------------------------------------- JS values
Undefined == [kind |-> "undefined"]
Null      == [kind |-> "null"]
Word(s)   == [kind |-> "word", text |-> s]
Str(segs) == [kind |-> "string", segs |-> segs]   \* a string, by its split(" ")

\* !value for a header value
Falsy(h) == h.kind = "undefined" \/ (h.kind = "string" /\ h.segs = <<Word("")>>)

\* authHeader.split(" ")[1]
SplitSecond(h) == IF Len(h.segs) >= 2 THEN h.segs[2] ELSE Undefined

\* ------------------------------------------------------------ bcrypt
\* bcrypt.hash(password, 10): a one-way digest under a fresh salt
bcryptHash(password, salt) == [kind |-> "bcrypt", salt |-> salt, digest |-> <<salt, password>>]

\* bcrypt.compare(password, hash): re-derive the digest with the stored salt
bcryptCompare(password, hash) == hash.digest = <<hash.salt, password>>

\* ------------------------------------------------------------ jsonwebtoken
\* variant: the email claim is filled from the username
jwtSign_EmailFromUsername(payload, key, t) ==
    [kind |-> "jwt", userID |-> payload.userID, username |-> payload.username,
     email |-> payload.username, iat |-> t, exp |-> t + Hour, key |-> key]

\* jwt.sign(payload, secret_key, {expiresIn: "1h"}) at time t
jwtSign(payload, key, t) ==
    [kind |-> "jwt", userID |-> payload.userID, username |-> payload.username,
     email |-> payload.email, iat |-> t, exp |-> t + Hour, key |-> key]

\* variant: verification with ignoreExpiration
jwtVerifyErr_NoExpiry(token, key, t) == token.kind # "jwt" \/ token.key # key

\* jwt.verify(token, secret_key, cb): TRUE when cb gets an err
jwtVerifyErr(token, key, t) ==
    \/ token.kind # "jwt"          \* undefined ("jwt must be provided") or malformed
    \/ token.key # key             \* invalid signature
    \/ t >= token.exp              \* TokenExpiredError

VARIABLES
    phase,    \* "boot", "running" or "exited" (process.exit(1))
    env,      \* process.env, read once at start
    users,    \* the User collection
    nextId,   \* source of fresh _id values and salts
    regs,     \* the /register requests: one slot per request
    tokens,   \* tokens issued by /login that clients still hold
    now,      \* the clock
    last      \* the latest request answered by a one-step handler

vars == <<phase, env, users, nextId, regs, tokens, now, last>>

RegIds == 1..MaxRegs

Response(status, body) == [status |-> status, body |-> body]
Error(status, msg) == Response(status, [error |-> msg])

NoRequest == [kind |-> "none"]
IdleReg == [pc |-> "idle"]

Envs == [MONGO_URI : BOOLEAN, SECRET_KEY : Secrets,
         SENDGRID_API_KEY : BOOLEAN, MAIL_FROM : BOOLEAN]

secret_key == env.SECRET_KEY

Init ==
    /\ phase = "boot"
    /\ env \in Envs
    /\ users = {}
    /\ nextId = 1
    /\ regs = [i \in RegIds |-> IdleReg]
    /\ tokens = {}
    /\ now = 0
    /\ last = NoRequest

\* ------------------------------------------------------------ bootstrap
\* variant: the earlier bootstrap (lines 26-30), which throws without SECRET_KEY
BootMayExit_ThrowWithoutSecret(e) == e.MONGO_URI \/ e.SECRET_KEY = ""

\* lines 229-246 and 385-388: a missing SECRET_KEY or MONGO_URI only warns;
\* with MONGO_URI set, connectDB() either connects or rejects, and a
\* rejection ends the process.
BootMayExit(e) == e.MONGO_URI

Boot ==
    /\ phase = "boot"
    /\ \/ phase' = "running"
       \/ BootMayExit(env) /\ phase' = "exited"
    /\ UNCHANGED <<env, users, nextId, regs, tokens, now, last>>

Tick ==
    /\ phase = "running"
    /\ now < MaxTime
    /\ now' = now + 1
    /\ UNCHANGED <<phase, env, users, nextId, regs, tokens, last>>

\* ------------------------------------------------------------ User model
\* variant: the existence check looks at the username only
findOneByUsernameOrEmail_UsernameOnly(coll, username, email) ==
    {u \in coll : u.username = username}

\* User.findOne({ $or: [{ username }, { email }] })
findOneByUsernameOrEmail(coll, username, email) ==
    {u \in coll : u.username = username \/ u.email = email}

\* User.findOne({ username })
findOneByUsername(coll, username) == {u \in coll : u.username = username}

\* User.findById(id)
findById(coll, id) == {u \in coll : u._id = id}

\* schema validation on save: username, password and email are required
\* strings, and a required string must be non-empty
ValidationError(doc) == doc.username = "" \/ doc.email = ""

\* variant: a unique index on username only
DuplicateKey_UsernameOnly(coll, doc) == \E u \in coll : u.username = doc.username

\* the unique indexes on username and email
DuplicateKey(coll, doc) ==
    \E u \in coll : u.username = doc.username \/ u.email = doc.email

\* variant: a collection without unique indexes
saveRejects_NoIndex(coll, doc) == ValidationError(doc)

\* newUser.save(): TRUE when the save rejects
saveRejects(coll, doc) == ValidationError(doc) \/ DuplicateKey(coll, doc)

\* variant: the save replaces the records that hold the username or email
saved_Upsert(coll, doc) ==
    IF ValidationError(doc) THEN coll
    ELSE {u \in coll : u.username # doc.username /\ u.email # doc.email} \cup {doc}

\* the collection after newUser.save(): a rejected save writes nothing
saved(coll, doc) == IF saveRejects(coll, doc) THEN coll ELSE coll \cup {doc}

\* ------------------------------------------------------------ POST /register
\* a request takes the lowest slot not yet used
FreeSlot(i) == regs[i].pc = "idle" /\ \A j \in RegIds : j < i => regs[j].pc # "idle"

\* line 283-290: the configuration guard and the existence check
RegisterFind(i) ==
    /\ phase = "running"
    /\ FreeSlot(i)
    /\ \E username \in Usernames, password \in Passwords, email \in Emails :
         LET req == [username |-> username, password |-> password, email |-> email]
             existingUser == findOneByUsernameOrEmail(users, username, email)
         IN  regs' = [regs EXCEPT ![i] =
                 IF ~env.MONGO_URI
                 THEN [pc |-> "done", req |-> req, _id |-> 0,
                       res |-> Error(503, "Database not configured")]
                 ELSE IF existingUser # {}
                 THEN [pc |-> "done", req |-> req, _id |-> 0,
                       res |-> Error(400, "Username or email already exists")]
                 ELSE [pc |-> "save", req |-> req, _id |-> 0, res |-> Null]]
    /\ UNCHANGED <<phase, env, users, nextId, tokens, now, last>>

\* line 292-300: hash, construct the document (which draws its _id), save
RegisterSave(i) ==
    /\ phase = "running"
    /\ regs[i].pc = "save"
    /\ LET req == regs[i].req
           newUser == [_id |-> nextId, username |-> req.username,
                       password |-> bcryptHash(req.password, nextId),
                       email |-> req.email]
       IN  /\ nextId' = nextId + 1
           /\ IF saveRejects(users, newUser)
              THEN regs' = [regs EXCEPT ![i] =
                       [pc |-> "done", req |-> req, _id |-> newUser._id,
                        res |-> Error(500, "Failed to register user")]]
              ELSE regs' = [regs EXCEPT ![i] =
                       [pc |-> "done", req |-> req, _id |-> newUser._id,
                        res |-> Response(201, [message |-> "User registered successfully"])]]
           /\ users' = saved(users, newUser)
    /\ UNCHANGED <<phase, env, tokens, now, last>>

\* ------------------------------------------------------------ POST /login
\* variant: an unknown username is reported as such
UnknownUserResponse_NotFound == Error(404, "User not found")

\* line 312
UnknownUserResponse == Error(400, "Invalid credentials")

\* line 315
WrongPasswordResponse == Error(400, "Invalid credentials")

\* line 304-323: the response and the token issued (Null when none)
LoginOutcome(username, password) ==
    LET found == findOneByUsername(users, username)
    IN  IF ~env.MONGO_URI
        THEN [res |-> Error(503, "Database not configured"), token |-> Null]
        ELSE IF secret_key = ""
        THEN [res |-> Error(500, "Server misconfigured (no SECRET_KEY)"), token |-> Null]
        ELSE IF found = {}
        THEN [res |-> UnknownUserResponse, token |-> Null]
        ELSE LET user == CHOOSE u \in found : TRUE
             IN  IF ~bcryptCompare(password, user.password)
                 THEN [res |-> WrongPasswordResponse, token |-> Null]
                 ELSE LET token == jwtSign([userID |-> user._id, username |-> user.username,
                                            email |-> user.email], secret_key, now)
                      IN  [res |-> Response(200, [token |-> token, userID |-> user._id]),
                           token |-> token]

Login ==
    /\ phase = "running"
    /\ \E username \in Usernames, password \in Passwords :
         LET out == LoginOutcome(username, password)
         IN  /\ last' = [kind |-> "login",
                         req |-> [username |-> username, password |-> password],
                         res |-> out.res]
             /\ IF out.token = Null
                THEN tokens' = tokens
                ELSE \E kept \in SUBSET (tokens \cup {out.token}) :
                        /\ Cardinality(kept) <= MaxTokens
                        /\ tokens' = kept
    /\ UNCHANGED <<phase, env, users, nextId, regs, now>>

\* ------------------------------------------------------------ GET /getUser
\* tokens a client may present that this process did not issue
ForgedToken == [kind |-> "jwt", userID |-> 1, username |-> "alice", email |-> "a@x.com",
                iat |-> 0, exp |-> MaxTime + Hour + 1, key |-> "k2"]

\* issued under the same secret before this process started, for a record since removed
PriorToken == [kind |-> "jwt", userID |-> 0, username |-> "alice", email |-> "a@x.com",
               iat |-> 0, exp |-> Hour, key |-> "k1"]

AuthorizationHeaders ==
    {Undefined, Str(<<Word("")>>), Str(<<Word("Bearer")>>), Str(<<Word("Bearer"), Word("")>>),
     Str(<<Word("Bearer"), Word("garbage")>>)}
    \cup {Str(<<Word("Bearer"), t>>) : t \in tokens \cup {ForgedToken, PriorToken}}
    \cup {Str(<<t>>) : t \in tokens}

\* variant: a failed verification is answered like a missing header
authenticateJWT_Always401(authHeader) ==
    IF secret_key = "" THEN Error(500, "Server misconfigured (no SECRET_KEY)")
    ELSE IF Falsy(authHeader) \/ jwtVerifyErr(SplitSecond(authHeader), secret_key, now)
         THEN Error(401, "Authorization header is missing")
    ELSE Null

\* line 264-276: the guard's response, or Null when it calls next()
authenticateJWT(authHeader) ==
    IF secret_key = "" THEN Error(500, "Server misconfigured (no SECRET_KEY)")
    ELSE IF Falsy(authHeader) THEN Error(401, "Authorization header is missing")
    ELSE IF jwtVerifyErr(SplitSecond(authHeader), secret_key, now)
         THEN Error(403, "Invalid token")
    ELSE Null

\* line 331-342: the handler behind the guard, for req.userID
getUserHandler(userID) ==
    LET found == findById(users, userID)
    IN  IF ~env.MONGO_URI THEN Error(503, "Database not configured")
        ELSE IF found = {} THEN Error(404, "User not found")
        ELSE LET user == CHOOSE u \in found : TRUE
             IN  Response(200, [username |-> user.username, email |-> user.email])

GetUser ==
    /\ phase = "running"
    /\ \E authHeader \in AuthorizationHeaders :
         LET guard == authenticateJWT(authHeader)
         IN  last' = [kind |-> "getUser", req |-> [authorization |-> authHeader],
                      next |-> (guard = Null),
                      reads |-> IF guard = Null /\ env.MONGO_URI THEN 1 ELSE 0,
                      res |-> IF guard = Null
                              THEN getUserHandler(SplitSecond(authHeader).userID)
                              ELSE guard]
    /\ UNCHANGED <<phase, env, users, nextId, regs, tokens, now>>

\* ------------------------------------------------------------ GET /health
Health ==
    /\ phase = "running"
    /\ last' = [kind |-> "health", res |-> Response(200, [message |-> "API is healthy"])]
    /\ UNCHANGED <<phase, env, users, nextId, regs, tokens, now>>

\* ------------------------------------------------------------ POST /api/contact/send
\* variant: the configuration is checked before the fields
ContactOutcome_ConfigFirst(to, subject, body, providerOk) ==
    IF ~env.SENDGRID_API_KEY
    THEN [res |-> Error(503, "Email not configured"), sent |-> FALSE]
    ELSE IF ~env.MAIL_FROM
    THEN [res |-> Error(503, "MAIL_FROM not configured"), sent |-> FALSE]
    ELSE IF to = "" \/ subject = "" \/ body = ""
    THEN [res |-> Error(400, "Missing fields"), sent |-> FALSE]
    ELSE IF providerOk
    THEN [res |-> Response(200, [ok |-> TRUE]), sent |-> TRUE]
    ELSE [res |-> Error(500, "mail_failed"), sent |-> TRUE]

\* line 362-379; sent tells whether sgMail.send was called
ContactOutcome(to, subject, body, providerOk) ==
    IF to = "" \/ subject = "" \/ body = ""
    THEN [res |-> Error(400, "Missing fields"), sent |-> FALSE]
    ELSE IF ~env.SENDGRID_API_KEY
    THEN [res |-> Error(503, "Email not configured"), sent |-> FALSE]
    ELSE IF ~env.MAIL_FROM
    THEN [res |-> Error(503, "MAIL_FROM not configured"), sent |-> FALSE]
    ELSE IF providerOk
    THEN [res |-> Response(200, [ok |-> TRUE]), sent |-> TRUE]
    ELSE [res |-> Error(500, "mail_failed"), sent |-> TRUE]

ContactSend ==
    /\ phase = "running"
    /\ \E to \in Fields, subject \in Fields, body \in Fields, providerOk \in BOOLEAN :
         LET out == ContactOutcome(to, subject, body, providerOk)
         IN  last' = [kind |-> "contact",
                      req |-> [to |-> to, subject |-> subject, body |-> body],
                      sent |-> out.sent, res |-> out.res]
    /\ UNCHANGED <<phase, env, users, nextId, regs, tokens, now>>

\* ------------------------------------------------------------ environment
\* a record removed from the collection by other means than this server
DeleteUser ==
    /\ phase = "running"
    /\ \E u \in users : users' = users \ {u}
    /\ UNCHANGED <<phase, env, nextId, regs, tokens, now, last>>

\* ------------------------------------------------------------ specifications
NextAuth ==
    \/ Boot
    \/ Tick
    \/ \E i \in RegIds : RegisterFind(i)
    \/ \E i \in RegIds : RegisterSave(i)
    \/ Login
    \/ GetUser
    \/ Health

NextReg ==
    \/ Boot
    \/ \E i \in RegIds : RegisterFind(i)
    \/ \E i \in RegIds : RegisterSave(i)

Next ==
    \/ NextAuth
    \/ ContactSend

NextMail ==
    \/ Boot
    \/ Health
    \/ ContactSend

NextEnv ==
    \/ NextAuth
    \/ DeleteUser

\* the mail settings are read by the mail route alone, where they only
\* select its answer; the specifications about the collection fix them
InitAuth == Init /\ env.SENDGRID_API_KEY /\ env.MAIL_FROM

\* every route, every configuration
Spec == Init /\ [][Next]_vars

\* /register alone: the only route that writes
RegSpec == InitAuth /\ [][NextReg]_vars

\* the auth routes
AuthSpec == InitAuth /\ [][NextAuth]_vars

\* every route
RouteSpec == InitAuth /\ [][Next]_vars

\* the mail route, every configuration
MailSpec == Init /\ [][NextMail]_vars

\* the auth routes, with records also removed behind the server's back
EnvSpec == InitAuth /\ [][NextEnv]_vars

\* ================================================================ claims
Done(i) == regs[i].pc = "done"
PassedCheck(i) == Done(i) /\ regs[i].res.status \in {201, 500}
Registered(i) == Done(i) /\ regs[i].res.status = 201
ValidReq(r) == r.username # "" /\ r.password # "" /\ r.email # ""
SameCredential(r, q) == r.username = q.username \/ r.email = q.email
OwnRecord(i) == {u \in users : u._id = regs[i]._id}

\* ---------------------------------------------------------------- C1
\* C1: in every reachable state, whatever the interleaving of Register
\* requests, no two user records share a username and no two share an email.
C1_UniqueCredentials ==
    \A u, v \in users : (u.username = v.username \/ u.email = v.email) => u = v

\* two requests for one username both passed the existence check, and a
\* record was saved
C1_Witness ==
    \E i, j \in RegIds :
        /\ i # j
        /\ Registered(i)
        /\ PassedCheck(j) /\ ValidReq(regs[j].req)
        /\ regs[i].req.username = regs[j].req.username
        /\ regs[i].req.email # regs[j].req.email
        /\ Cardinality(users) = 1

\* ---------------------------------------------------------------- C3
TakenByAnother(coll, r) ==
    \E u \in coll : \/ u.username = r.username /\ u.email # r.email
                    \/ u.email = r.email /\ u.username # r.username

\* C3: a Register request whose username is that of an existing record with
\* another email, or whose email is that of an existing record with another
\* username, is answered 400 "Username or email already exists" and leaves
\* the set of user records unchanged.
C3_DuplicateRejected ==
    [][\A i \in RegIds :
          (regs[i].pc = "idle" /\ regs'[i].pc # "idle" /\ TakenByAnother(users, regs'[i].req))
          => /\ regs'[i].pc = "done"
             /\ regs'[i].res = Error(400, "Username or email already exists")
             /\ users' = users]_vars

\* a request was answered 400 for an email that a record with another
\* username holds
C3_Witness ==
    \E i \in RegIds :
        /\ Done(i) /\ regs[i].res.status = 400
        /\ \E u \in users : u.email = regs[i].req.email /\ u.username # regs[i].req.username
        /\ \A u \in users : u.username # regs[i].req.username

\* ---------------------------------------------------------------- C10
\* no third request's record holds a username or email of the two
OnlyTheirRecords(i, j) ==
    \A u \in users :
        (SameCredential(u, regs[i].req) \/ SameCredential(u, regs[j].req))
        => u._id \in {regs[i]._id, regs[j]._id}

Winner(i, j) ==
    /\ regs[i].res.status = 201 /\ Cardinality(OwnRecord(i)) = 1
    /\ regs[j].res = Error(500, "Failed to register user") /\ OwnRecord(j) = {}

\* C10: when two valid Register requests for the same username or the same
\* email both pass the existence check before either saves (and no third
\* request's record holds either credential), exactly one is answered 201 and
\* has its record in the collection; the other is answered 500 "Failed to
\* register user", not 400, has no record, and is not retried.
C10_RaceOneWinner ==
    \A i, j \in RegIds :
        (/\ i # j
         /\ PassedCheck(i) /\ PassedCheck(j)
         /\ ValidReq(regs[i].req) /\ ValidReq(regs[j].req)
         /\ SameCredential(regs[i].req, regs[j].req)
         /\ OnlyTheirRecords(i, j))
        => (Winner(i, j) \/ Winner(j, i))

\* two requests for one email and two usernames raced; one record exists
C10_Witness ==
    \E i, j \in RegIds :
        /\ i # j
        /\ PassedCheck(i) /\ PassedCheck(j)
        /\ ValidReq(regs[i].req) /\ ValidReq(regs[j].req)
        /\ regs[i].req.email = regs[j].req.email
        /\ regs[i].req.username # regs[j].req.username
        /\ Winner(i, j)

\* ---------------------------------------------------------------- steps
\* a one-step handler answered a request of this kind in the step
Answered(kind) == last' # last /\ last'.kind = kind

\* what the credentials of a login request are against the collection
Credentials(coll, username, password) ==
    LET found == {u \in coll : u.username = username}
    IN  IF found = {} THEN "unknown"
        ELSE IF \E u \in found : u.password.digest = <<u.password.salt, password>>
        THEN "match"
        ELSE "wrongpw"

\* ---------------------------------------------------------------- C2
\* no record but the request's own holds its username or email
NoOtherHolder(i) ==
    \A u \in users : SameCredential(u, regs[i].req) => u._id = regs[i]._id

C2_RegisterAnswered ==
    \A i \in RegIds :
        (Done(i) /\ env.MONGO_URI /\ ValidReq(regs[i].req) /\ NoOtherHolder(i))
        => /\ regs[i].res = Response(201, [message |-> "User registered successfully"])
           /\ \E u \in users : /\ u._id = regs[i]._id
                               /\ u.username = regs[i].req.username
                               /\ u.email = regs[i].req.email

C2_LoginAnswered ==
    \A i \in RegIds :
        (/\ Answered("login")
         /\ secret_key # ""
         /\ Registered(i)
         /\ last'.req.username = regs[i].req.username
         /\ last'.req.password = regs[i].req.password)
        => /\ last'.res.status = 200
           /\ last'.res.body.userID = regs[i]._id
           /\ last'.res.body.token.userID = regs[i]._id
           /\ last'.res.body.token.username = regs[i].req.username
           /\ last'.res.body.token.email = regs[i].req.email
           /\ last'.res.body.token.key = secret_key

C2_GetUserAnswered ==
    \A i \in RegIds : \A t \in tokens :
        (/\ Answered("getUser")
         /\ last'.req.authorization = Str(<<Word("Bearer"), t>>)
         /\ now < t.exp
         /\ Registered(i)
         /\ t.userID = regs[i]._id)
        => last'.res = Response(200, [username |-> regs[i].req.username,
                                      email |-> regs[i].req.email])

\* C2: on a server with MONGO_URI and SECRET_KEY set, a Register of three
\* non-empty fields whose username and email no other record holds is
\* answered 201; a following Login with that username and password is
\* answered 200 with a token carrying the registered username and email; and
\* GET /getUser with that token, before it expires, is answered 200 with
\* exactly that username and email.
C2_RegisterLoginGetUser ==
    [][C2_RegisterAnswered' /\ C2_LoginAnswered /\ C2_GetUserAnswered]_vars

\* alice registered, logged in, and read her profile with the token
C2_Witness ==
    \E i \in RegIds : \E t \in tokens :
        /\ Registered(i)
        /\ regs[i].req = [username |-> "alice", password |-> "p4ss", email |-> "a@x.com"]
        /\ t.userID = regs[i]._id
        /\ last.kind = "getUser"
        /\ last.req.authorization = Str(<<Word("Bearer"), t>>)
        /\ last.res = Response(200, [username |-> "alice", email |-> "a@x.com"])

\* ---------------------------------------------------------------- C4
\* the one response to a login with credentials that match no record
RejectedLogin ==
    IF ~env.MONGO_URI THEN Error(503, "Database not configured")
    ELSE IF secret_key = "" THEN Error(500, "Server misconfigured (no SECRET_KEY)")
    ELSE Error(400, "Invalid credentials")

C5_TokenLifetime ==
    [][Answered("getUser")
       => LET h == last'.req.authorization
          IN  (h.kind = "string" /\ SplitSecond(h).kind = "jwt" /\ secret_key # "")
              => LET t == SplitSecond(h)
                 IN  /\ (t.key = secret_key /\ now < t.exp)
                        => /\ last'.next
                           /\ last'.res.status # 403
                           /\ (env.MONGO_URI /\ (\A u \in users : u._id # t.userID))
                              => last'.res = Error(404, "User not found")
                     /\ (t.key = secret_key /\ now >= t.exp)
                        => (~last'.next /\ last'.res = Error(403, "Invalid token"))
                     /\ t.key # secret_key
                        => (~last'.next /\ last'.res = Error(403, "Invalid token"))]_vars

\* a token issued for a registered user was accepted after the record was
\* removed, and the handler answered 404
C5_Witness ==
    \E i \in RegIds : \E t \in tokens :
        /\ Registered(i) /\ OwnRecord(i) = {}
        /\ t.userID = regs[i]._id
        /\ last.kind = "getUser"
        /\ last.req.authorization = Str(<<Word("Bearer"), t>>)
        /\ last.next
        /\ last.res = Error(404, "User not found")

\* ---------------------------------------------------------------- C6
\* C6 as stated (on a server with SECRET_KEY set): a request without an
\* Authorization header is answered 401, a request whose header is present
\* but has no token segment is answered 403, and in both cases the handler
\* is not invoked and the collection is not read.
NoTokenSegment(h) == h.kind = "string" /\ Len(h.segs) < 2

C6_Original ==
    (last.kind = "getUser" /\ secret_key # "")
    => LET h == last.req.authorization
       IN  /\ h = Undefined
              => (last.res.status = 401 /\ ~last.next /\ last.reads = 0)
           /\ NoTokenSegment(h)
              => (last.res.status = 403 /\ ~last.next /\ last.reads = 0)

\* C6, amended: on a server with SECRET_KEY set, a request without an
\* Authorization header, or with an empty one, is answered 401, and a request
\* whose header is not empty but has no token segment is answered 403; in
\* all these cases the handler is not invoked and the collection is not read.
C6_HeaderErrors ==
    (last.kind = "getUser" /\ secret_key # "")
    => LET h == last.req.authorization
       IN  /\ (h = Undefined \/ h = Str(<<Word("")>>))
              => /\ last.res = Error(401, "Authorization header is missing")
                 /\ ~last.next /\ last.reads = 0
           /\ (NoTokenSegment(h) /\ h # Str(<<Word("")>>))
              => /\ last.res = Error(403, "Invalid token")
                 /\ ~last.next /\ last.reads = 0

\* a header of the one word "Bearer" was answered 403 while the collection
\* had a record to read
C6_Witness ==
    /\ last.kind = "getUser"
    /\ last.req.authorization = Str(<<Word("Bearer")>>)
    /\ last.res.status = 403
    /\ users # {}

\* ---------------------------------------------------------------- C7
NoExitForAbsence == phase = "exited" => env.MONGO_URI

\* C7 as stated: with SECRET_KEY or MONGO_URI absent the process does not
\* exit, every /register, /login and /getUser request is answered 503 when
\* MONGO_URI is absent, and every /login and /getUser request is answered
\* 503 when SECRET_KEY is absent.
C7_Original ==
    /\ NoExitForAbsence
    /\ ~env.MONGO_URI
       => /\ \A i \in RegIds : Done(i) => regs[i].res.status = 503
          /\ last.kind \in {"login", "getUser"} => last.res.status = 503
    /\ secret_key = ""
       => (last.kind \in {"login", "getUser"} => last.res.status = 503)

\* C7, amended: with SECRET_KEY or MONGO_URI absent the process does not
\* exit. With MONGO_URI absent every /register and /login request is
\* answered 503, and a /getUser request is answered 503 only once the guard
\* has accepted its token (the guard's 500, 401 and 403 come first). With
\* SECRET_KEY absent every /getUser request is answered 500, and so is every
\* /login request unless MONGO_URI is absent too (then 503).
C7_Degraded ==
    /\ NoExitForAbsence
    /\ ~env.MONGO_URI
       => /\ \A i \in RegIds : Done(i) => regs[i].res = Error(503, "Database not configured")
          /\ last.kind = "login" => last.res = Error(503, "Database not configured")
          /\ last.kind = "getUser"
             => IF last.next THEN last.res = Error(503, "Database not configured")
                ELSE last.res.status \in {500, 401, 403}
    /\ secret_key = ""
       => /\ last.kind = "getUser"
             => last.res = Error(500, "Server misconfigured (no SECRET_KEY)")
          /\ (last.kind = "login" /\ env.MONGO_URI)
             => last.res = Error(500, "Server misconfigured (no SECRET_KEY)")

\* without MONGO_URI, a /getUser request passed the guard and was answered 503
C7_Witness ==
    /\ phase = "running"
    /\ ~env.MONGO_URI
    /\ last.kind = "getUser" /\ last.next
    /\ last.res.status = 503

\* ---------------------------------------------------------------- C8
MissingFields(r) == r.to = "" \/ r.subject = "" \/ r.body = ""

\* C8: a contact request with to, subject or body missing or empty is
\* answered 400 "Missing fields" without a call of the provider, whatever
\* the configuration; otherwise a missing SENDGRID_API_KEY or MAIL_FROM gives
\* 503 without a call; otherwise the provider is called and the answer is
\* 200 {ok: true} or 500.
C8_ContactPrecedence ==
    last.kind = "contact"
    => /\ MissingFields(last.req)
          => (last.res = Error(400, "Missing fields") /\ ~last.sent)
       /\ (~MissingFields(last.req) /\ ~(env.SENDGRID_API_KEY /\ env.MAIL_FROM))
          => (last.res.status = 503 /\ ~last.sent)
       /\ (~MissingFields(last.req) /\ env.SENDGRID_API_KEY /\ env.MAIL_FROM)
          => /\ last.sent
             /\ last.res \in {Response(200, [ok |-> TRUE]), Error(500, "mail_failed")}

\* {to} alone, on a server without SENDGRID_API_KEY, was answered 400
C8_Witness ==
    /\ last.kind = "contact"
    /\ last.req = [to |-> "v", subject |-> "", body |-> ""]
    /\ ~env.SENDGRID_API_KEY
    /\ last.res = Error(400, "Missing fields")

\* ---------------------------------------------------------------- C9
\* C9: in every step the set of user records only grows and no record of it
\* changes; a step that answers a login, getUser, health or contact request,
\* or answers a Register with anything but 201, leaves the collection as it
\* was, and a step that answers a Register with 201 adds exactly one record.
C9_StoreOnlyGrows ==
    [][/\ users \subseteq users'
       /\ \A u \in users : \A v \in users' : v._id = u._id => v = u
       /\ last' # last => users' = users
       /\ \A i \in RegIds :
             (~Done(i) /\ regs'[i].pc = "done")
             => IF regs'[i].res.status = 201
                THEN /\ Cardinality(users' \ users) = 1
                     /\ \A u \in users' \ users :
                           /\ u.username = regs'[i].req.username
                           /\ u.email = regs'[i].req.email
                ELSE users' = users
       /\ users' # users => \E i \in RegIds : ~Done(i) /\ regs'[i].pc = "done"]_vars

\* after one Register answered 201 and one answered 500, a contact request
\* was answered and the one record is still there
C9_Witness ==
    \E i, j \in RegIds :
        /\ Registered(i) /\ Cardinality(OwnRecord(i)) = 1
        /\ Done(j) /\ regs[j].res.status = 500
        /\ last.kind = "contact"
        /\ Cardinality(users) = 1
====
